---- MODULE Spec2Model ----
(***************************************************************************)
(* Model of MessageListener (src/message_listener.py): the WebSocket       *)
(* server that receives OneBot frames, gates group messages by the group   *)
(* setting, offers each message to the plugin manager, falls back to the   *)
(* Dify backend and sends the reply action on the same connection.         *)
(*                                                                         *)
(* Python values: a dict is a record (a function on its keys), None is the *)
(* string NoneVal, an incoming text frame is [wellformed, doc] where doc   *)
(* is the dict json.loads returns when the text is JSON.  One action is    *)
(* one run of a coroutine between two awaits (asyncio runs it atomically). *)
(***************************************************************************)
EXTENDS Integers, Sequences, FiniteSets, TLC

VARIABLES
    st,             \* per connection: AWAITING_HANDSHAKE / ACTIVE / CLOSED
    pc,             \* per connection: where the handler coroutine is suspended
    cur,            \* per connection: locals of the dispatch awaiting the backend
    exitKind,       \* per connection: how the handler coroutine ended
    socket,         \* per connection: open, or closed by the peer
    inbox,          \* per connection: frames sent by the gateway, not yet received
    received,       \* per connection: frames the receive loop has taken, in order
    outbound,       \* per connection: actions sent with websocket.send, in order
    backendCalls,   \* per connection: dify_client.send_request calls, in order
    backendAnswers, \* per connection: answers process_response gave, in order
    pluginCalls,    \* per connection: plugin_manager.handle_message calls, in order
    policyLookups,  \* per connection: get_group_chat_setting calls and whether
                    \* the setting returned disables the group
    heartbeats,     \* records held by self.heartbeat_handler (one per listener)
    pluginLoads,    \* per connection: plugin_manager.load_plugins() calls made
    path,           \* per connection: the path the peer requested
    nframes         \* frames the gateway has sent so far, all connections

vars == <<st, pc, cur, exitKind, socket, inbox, received, outbound,
          backendCalls, backendAnswers, pluginCalls, policyLookups, heartbeats, pluginLoads,
          path, nframes>>

-----------------------------------------------------------------------------
(* Bound of the model: the frames the gateway sends, all connections *)

MaxFrames == 2

(* The connections, ids and paths of the model *)

Conns == {"c1", "c2"}
Users == {42}
Groups == {100}
ListenPath == "/ws"
Paths == {"/ws", "/other"}

NoneVal == "<None>"

-----------------------------------------------------------------------------
(* Python helpers *)

\* dict.get(key): the value, or None when the key is absent
Get(d, k) == IF k \in DOMAIN d THEN d[k] ELSE NoneVal

\* dict.get(key, default)
GetDefault(d, k, dflt) == IF k \in DOMAIN d THEN d[k] ELSE dflt

\* truth value of a str-or-None, as in `if answer:`
Truthy(s) == s # NoneVal /\ s # ""

\* does d[k] raise KeyError
HasKey(d, k) == k \in DOMAIN d

-----------------------------------------------------------------------------
(* The frames the gateway may send *)

PrivateDoc(u) ==
    [post_type |-> "message", message_type |-> "private",
     sender |-> [user_id |-> u], raw_message |-> "hi"]

GroupDoc(g, u) ==
    [post_type |-> "message", message_type |-> "group", group_id |-> g,
     sender |-> [user_id |-> u], raw_message |-> "hi"]

Docs ==
    {[post_type |-> "meta_event", meta_event_type |-> "heartbeat"],
     [post_type |-> "meta_event", meta_event_type |-> "lifecycle"],
     [post_type |-> "notice"],
     [post_type |-> "message", message_type |-> "guild"],
     [post_type |-> "message", message_type |-> "private", raw_message |-> "hi"],
     [post_type |-> "message", message_type |-> "group",
      sender |-> [user_id |-> 42], raw_message |-> "hi"]}
    \cup {PrivateDoc(u) : u \in Users}
    \cup {GroupDoc(g, u) : g \in Groups, u \in Users}

NotJson == [wellformed |-> FALSE, doc |-> [text |-> "{oops"]]

WireFrames == {NotJson} \cup {[wellformed |-> TRUE, doc |-> d] : d \in Docs}

\* json.loads(message): defined on the frames that are JSON
json_loads(message) == message.doc

-----------------------------------------------------------------------------
(* Collaborators outside src/, by their interface *)

\* PluginManager.handle_message returns {handled, reply}
PluginResults ==
    {[handled |-> FALSE, reply |-> NoneVal],
     [handled |-> TRUE, reply |-> NoneVal],
     [handled |-> TRUE, reply |-> ""],
     [handled |-> TRUE, reply |-> "pong"]}

\* dify_receiver.process_response(response): an answer, "" or None
Answers == {NoneVal, "", "hello"}

\* the setting dicts the store may hold for a group: without an 'enabled'
\* key, enabled, disabled
Settings == {[name |-> "g"], [enabled |-> TRUE], [enabled |-> FALSE]}

\* what a lookup is remembered by: did the setting say 'enabled': false
ExplicitlyDisabled(setting) == HasKey(setting, "enabled") /\ setting["enabled"] = FALSE

\* ConfigManager.get_group_chat_setting(group_id): the setting persisted for
\* the group at the time of the call; an operator may have changed it since
\* the previous call, so each call may return any of them
get_group_chat_setting(group_id) == Settings

-----------------------------------------------------------------------------
NoCur == [id |-> 0, kind |-> "none", target |-> 0]

Init ==
    /\ st = [c \in Conns |-> "AWAITING_HANDSHAKE"]
    /\ pc = [c \in Conns |-> "start"]
    /\ cur = [c \in Conns |-> NoCur]
    /\ exitKind = [c \in Conns |-> "running"]
    /\ socket = [c \in Conns |-> "open"]
    /\ inbox = [c \in Conns |-> <<>>]
    /\ received = [c \in Conns |-> <<>>]
    /\ outbound = [c \in Conns |-> <<>>]
    /\ backendCalls = [c \in Conns |-> <<>>]
    /\ backendAnswers = [c \in Conns |-> <<>>]
    /\ pluginCalls = [c \in Conns |-> <<>>]
    /\ policyLookups = [c \in Conns |-> <<>>]
    /\ heartbeats = <<>>
    /\ pluginLoads = [c \in Conns |-> 0]
    /\ path = [c \in Conns |-> NoneVal]
    /\ nframes = 0

-----------------------------------------------------------------------------
(* Pieces of the handler, as the code computes them *)

\* the path test lost: every connection is taken
PathMatches_any(p) == TRUE

\* handler: `if path == self.path`
PathMatches(p) == p = ListenPath

\* the heartbeat test with the type misspelt: it never matches
IsHeartbeat_typo(msg_data) ==
    /\ Get(msg_data, "post_type") = "meta_event"
    /\ Get(msg_data, "meta_event_type") = "heart_beat"

\* handler: the heartbeat test on a decoded frame
IsHeartbeat(msg_data) ==
    /\ Get(msg_data, "post_type") = "meta_event"
    /\ Get(msg_data, "meta_event_type") = "heartbeat"

\* every message that is not private taken for a group message
Route_else_group(msg_data) ==
    IF Get(msg_data, "post_type") = "message"
    THEN IF Get(msg_data, "message_type") = "private" THEN "private"
         ELSE "group"
    ELSE "drop"

\* handler: which process_* coroutine a decoded non-heartbeat frame goes to
Route(msg_data) ==
    IF Get(msg_data, "post_type") = "message"
    THEN IF Get(msg_data, "message_type") = "private" THEN "private"
         ELSE IF Get(msg_data, "message_type") = "group" THEN "group"
         ELSE "drop"
    ELSE "drop"

\* the newest waiting frame taken first
Dequeue_newest_first(q) == [msg |-> q[Len(q)], rest |-> SubSeq(q, 1, Len(q) - 1)]

\* `async for message in websocket`: takes the oldest frame not yet received
Dequeue(q) == [msg |-> Head(q), rest |-> Tail(q)]

\* the backend called synchronously: while one dispatch waits for its answer
\* the event loop runs no other coroutine
CanReceive_blocking(c) == \A d \in Conns : pc[d] = "recv"

\* the dispatch started as a task of its own instead of being awaited: the
\* loop takes the next frame while a dispatch is suspended
CanReceive_not_awaited(c) == pc[c] \in {"recv", "await_backend"}

\* the receive loop takes a frame only between dispatches: each process_*
\* coroutine is awaited inside the loop body
CanReceive(c) == pc[c] = "recv"

\* msg_data['sender']['user_id'] does not raise KeyError
HasSenderUserId(msg_data) ==
    /\ HasKey(msg_data, "sender")
    /\ HasKey(msg_data["sender"], "user_id")

\* the gate lost: every group is replied to
group_enabled_always(group_setting) == TRUE

\* an absent 'enabled' record read as disabled
group_enabled_default_false(group_setting) == GetDefault(group_setting, "enabled", FALSE)

\* process_group_message: `not group_setting.get('enabled', True)` is false
group_enabled(group_setting) == GetDefault(group_setting, "enabled", TRUE)

\* `if plugin_result["handled"]`
plugin_handled(plugin_result) == plugin_result["handled"]

\* the None test lost: a claimed message is always replied to
plugin_has_reply_always(plugin_result) == TRUE

\* `if plugin_result["reply"] is not None`
plugin_has_reply(plugin_result) == plugin_result["reply"] # NoneVal

\* `if answer is not None:` instead of `if answer:`
answer_usable_not_none(answer) == answer # NoneVal

\* `if answer:`
answer_usable(answer) == Truthy(answer)

\* the reply dict of process_private_message
private_reply(user_id, message) ==
    [action |-> "send_private_msg",
     params |-> [user_id |-> user_id, message |-> message],
     echo |-> "send_private_msg"]

\* the group reply with the echo of the private one
group_reply_private_echo(group_id, message) ==
    [action |-> "send_group_msg",
     params |-> [group_id |-> group_id, message |-> message],
     echo |-> "send_private_msg"]

\* the reply dict of process_group_message
group_reply(group_id, message) ==
    [action |-> "send_group_msg",
     params |-> [group_id |-> group_id, message |-> message],
     echo |-> "send_group_msg"]

\* every reply built as a private one
make_reply_always_private(kind, target, message) == private_reply(target, message)

\* the reply dict for a dispatch of the given kind
make_reply(kind, target, message) ==
    IF kind = "private" THEN private_reply(target, message)
    ELSE group_reply(target, message)

\* arguments of dify_client.send_request in process_private_message
private_request(msg_data) ==
    [text |-> GetDefault(msg_data, "raw_message", ""),
     identity |-> msg_data["sender"]["user_id"],
     is_group |-> FALSE]

\* the group request with the flag of the private one
group_request_private_flag(msg_data) ==
    [text |-> GetDefault(msg_data, "raw_message", ""),
     identity |-> msg_data["group_id"],
     is_group |-> FALSE]

\* arguments of dify_client.send_request in process_group_message
group_request(msg_data) ==
    [text |-> GetDefault(msg_data, "raw_message", ""),
     identity |-> msg_data["group_id"],
     is_group |-> TRUE]

\* self.heartbeat_handler: the monitor a connection's heartbeats go to.  It
\* is created once, in start(), and every connection's handler uses it
heartbeat_handler(c) == heartbeats

-----------------------------------------------------------------------------
(* Where the handler coroutine goes next *)

SetCtl(c, s, p, k, e) ==
    /\ st' = [st EXCEPT ![c] = s]
    /\ pc' = [pc EXCEPT ![c] = p]
    /\ cur' = [cur EXCEPT ![c] = k]
    /\ exitKind' = [exitKind EXCEPT ![c] = e]

\* back to `async for message in websocket`
KeepLooping(c) == SetCtl(c, "ACTIVE", "recv", NoCur, "running")

\* an exception other than ConnectionClosed leaves handler: the coroutine ends
Raise(c) == SetCtl(c, "CLOSED", "done", NoCur, "error")

\* `except websockets.exceptions.ConnectionClosed`: logged, the coroutine ends
ConnectionClosedCaught(c) == SetCtl(c, "CLOSED", "done", NoCur, "connection_closed")

\* suspended in `await self.dify_client.send_request(...)`
Suspend(c, k) == SetCtl(c, "ACTIVE", "await_backend", k, "running")

\* `await websocket.send(json.dumps(reply))`: raises ConnectionClosed once
\* the connection is closed.  The send is taken in the step of the code
\* before it: nothing else of this connection runs while it is awaited
websocket_send(c, id, reply) ==
    IF socket[c] = "open"
    THEN /\ outbound' = [outbound EXCEPT ![c] = Append(@, [id |-> id, frame |-> reply])]
         /\ KeepLooping(c)
    ELSE /\ outbound' = outbound
         /\ ConnectionClosedCaught(c)

\* no `return` after the plugin branch: a claimed message goes on to the backend
AfterGate_no_return(c, id, msg_data, kind, target, request) ==
    \E plugin_result \in PluginResults :
        /\ pluginCalls' = [pluginCalls EXCEPT
                             ![c] = Append(@, [id |-> id, result |-> plugin_result])]
        /\ IF /\ plugin_handled(plugin_result)
              /\ plugin_has_reply(plugin_result)
              /\ socket[c] # "open"
           THEN /\ backendCalls' = backendCalls
                /\ outbound' = outbound
                /\ ConnectionClosedCaught(c)
           ELSE /\ outbound' =
                    IF plugin_handled(plugin_result) /\ plugin_has_reply(plugin_result)
                    THEN [outbound EXCEPT
                            ![c] = Append(@, [id |-> id,
                                              frame |-> make_reply(kind, target,
                                                                   plugin_result["reply"])])]
                    ELSE outbound
                /\ backendCalls' = [backendCalls EXCEPT
                                      ![c] = Append(@, [id |-> id, request |-> request])]
                /\ Suspend(c, [id |-> id, kind |-> kind, target |-> target])

\* the part of process_*_message from the plugin call to the first await
AfterGate(c, id, msg_data, kind, target, request) ==
    \E plugin_result \in PluginResults :
        /\ pluginCalls' = [pluginCalls EXCEPT
                             ![c] = Append(@, [id |-> id, result |-> plugin_result])]
        /\ IF plugin_handled(plugin_result)
           THEN /\ backendCalls' = backendCalls
                /\ IF plugin_has_reply(plugin_result)
                   THEN websocket_send(c, id, make_reply(kind, target, plugin_result["reply"]))
                   ELSE outbound' = outbound /\ KeepLooping(c)
           ELSE /\ backendCalls' = [backendCalls EXCEPT
                                      ![c] = Append(@, [id |-> id, request |-> request])]
                /\ outbound' = outbound
                /\ Suspend(c, [id |-> id, kind |-> kind, target |-> target])

process_private_message(c, id, msg_data) ==
    /\ policyLookups' = policyLookups
    /\ IF ~HasSenderUserId(msg_data)
       THEN /\ Raise(c)
            /\ UNCHANGED <<outbound, backendCalls, pluginCalls>>
       ELSE AfterGate(c, id, msg_data, "private", msg_data["sender"]["user_id"],
                      private_request(msg_data))

process_group_message(c, id, msg_data) ==
    IF ~HasKey(msg_data, "group_id") \/ ~HasSenderUserId(msg_data)
    THEN /\ Raise(c)
         /\ UNCHANGED <<outbound, backendCalls, pluginCalls, policyLookups>>
    ELSE \E group_setting \in get_group_chat_setting(msg_data["group_id"]) :
         LET group_id == msg_data["group_id"]
         IN /\ policyLookups' = [policyLookups EXCEPT
                                   ![c] = Append(@, [id |-> id, group_id |-> group_id,
                                                     disabled |->
                                                       ExplicitlyDisabled(group_setting)])]
            /\ IF ~group_enabled(group_setting)
               THEN /\ KeepLooping(c)
                    /\ UNCHANGED <<outbound, backendCalls, pluginCalls>>
               ELSE AfterGate(c, id, msg_data, "group", group_id,
                              group_request(msg_data))

-----------------------------------------------------------------------------
(* Actions *)

\* a peer connects with a path and handler() runs up to its first await
Handler(c) ==
    /\ st[c] = "AWAITING_HANDSHAKE"
    /\ \E p \in Paths :
        /\ path' = [path EXCEPT ![c] = p]
        /\ IF PathMatches(p)
           THEN /\ pluginLoads' = [pluginLoads EXCEPT ![c] = @ + 1]
                /\ KeepLooping(c)
           ELSE /\ pluginLoads' = pluginLoads
                /\ SetCtl(c, "CLOSED", "done", NoCur, "path_mismatch")
    /\ UNCHANGED <<socket, inbox, received, outbound, backendCalls, backendAnswers,
                   pluginCalls, policyLookups, heartbeats, nframes>>

\* the gateway sends one more frame on a connection it has open
GatewaySend(c) ==
    /\ st[c] # "CLOSED"
    /\ socket[c] = "open"
    /\ nframes < MaxFrames
    /\ \E f \in WireFrames :
        inbox' = [inbox EXCEPT
                    ![c] = Append(@, [id |-> Len(received[c]) + Len(inbox[c]) + 1,
                                      frame |-> f])]
    /\ nframes' = nframes + 1
    /\ UNCHANGED <<st, pc, cur, exitKind, socket, received, outbound, backendCalls,
                   backendAnswers, pluginCalls, policyLookups, heartbeats, pluginLoads,
                   path>>

\* one iteration of the receive loop, up to its next await
Receive(c) ==
    /\ st[c] = "ACTIVE"
    /\ CanReceive(c)
    /\ inbox[c] # <<>>
    /\ LET m == Dequeue(inbox[c]).msg
           id == m.id
           message == m.frame
       IN /\ inbox' = [inbox EXCEPT ![c] = Dequeue(@).rest]
          /\ received' = [received EXCEPT ![c] = Append(@, m)]
          /\ IF ~message.wellformed
             THEN /\ Raise(c)
                  /\ UNCHANGED <<outbound, backendCalls, pluginCalls, policyLookups,
                                 heartbeats>>
             ELSE LET msg_data == json_loads(message)
                  IN IF IsHeartbeat(msg_data)
                     THEN /\ heartbeats' = Append(heartbeat_handler(c),
                                                  [conn |-> c, id |-> id])
                          /\ KeepLooping(c)
                          /\ UNCHANGED <<outbound, backendCalls, pluginCalls,
                                         policyLookups>>
                     ELSE /\ heartbeats' = heartbeats
                          /\ IF Route(msg_data) = "private"
                             THEN process_private_message(c, id, msg_data)
                             ELSE IF Route(msg_data) = "group"
                             THEN process_group_message(c, id, msg_data)
                             ELSE /\ KeepLooping(c)
                                  /\ UNCHANGED <<outbound, backendCalls, pluginCalls,
                                                 policyLookups>>
    /\ UNCHANGED <<socket, backendAnswers, pluginLoads, path, nframes>>

\* the backend call returns and the dispatch runs to its end
BackendReturn(c) ==
    /\ st[c] = "ACTIVE"
    /\ pc[c] = "await_backend"
    /\ \E answer \in Answers :
        /\ backendAnswers' = [backendAnswers EXCEPT
                                ![c] = Append(@, [id |-> cur[c].id, answer |-> answer])]
        /\ IF answer_usable(answer)
           THEN websocket_send(c, cur[c].id,
                               make_reply(cur[c].kind, cur[c].target, answer))
           ELSE outbound' = outbound /\ KeepLooping(c)
    /\ UNCHANGED <<socket, inbox, received, backendCalls, pluginCalls, policyLookups,
                   heartbeats, pluginLoads, path, nframes>>

\* the peer closes the connection
PeerClose(c) ==
    /\ st[c] = "ACTIVE"
    /\ socket[c] = "open"
    /\ socket' = [socket EXCEPT ![c] = "closed"]
    /\ UNCHANGED <<st, pc, cur, exitKind, inbox, received, outbound, backendCalls,
                   backendAnswers, pluginCalls, policyLookups, heartbeats, pluginLoads,
                   path, nframes>>

\* the receive loop keeps waiting on a connection that is closed
LoopEnd_keeps_waiting(c) ==
    /\ st[c] = "ACTIVE"
    /\ pc[c] = "recv"
    /\ inbox[c] = <<>>
    /\ socket[c] # "open"
    /\ UNCHANGED vars

\* the receive loop finds the connection closed and nothing left to deliver
\* (frames that arrived before the close are still delivered to the loop):
\* after a clean close the `async for` just ends, after an abrupt one it
\* raises ConnectionClosed, which handler catches and logs
LoopEnd(c) ==
    /\ st[c] = "ACTIVE"
    /\ pc[c] = "recv"
    /\ inbox[c] = <<>>
    /\ socket[c] # "open"
    /\ \E how \in {"clean", "abrupt"} :
        IF how = "clean"
        THEN SetCtl(c, "CLOSED", "done", NoCur, "loop_end")
        ELSE ConnectionClosedCaught(c)
    /\ UNCHANGED <<socket, inbox, received, outbound, backendCalls, backendAnswers,
                   pluginCalls, policyLookups, heartbeats, pluginLoads, path,
                   nframes>>

Next ==
    \/ \E c \in Conns : Handler(c)
    \/ \E c \in Conns : GatewaySend(c)
    \/ \E c \in Conns : Receive(c)
    \/ \E c \in Conns : BackendReturn(c)
    \/ \E c \in Conns : PeerClose(c)
    \/ \E c \in Conns : LoopEnd(c)

Spec == Init /\ [][Next]_vars

\* The event loop runs every coroutine that is ready: a handler that can
\* start, take a waiting frame or leave its loop eventually does.  Nothing
\* makes the backend answer, the gateway send or the peer close.
FairSpec ==
    /\ Spec
    /\ \A c \in Conns :
        WF_vars(Handler(c)) /\ WF_vars(Receive(c)) /\ WF_vars(LoopEnd(c))

-----------------------------------------------------------------------------
(* Vocabulary of the properties: read off the wire and the histories *)

Range(s) == {s[i] : i \in DOMAIN s}

\* how many entries of a history belong to the frame with this arrival number
Count(s, id) == Cardinality({i \in DOMAIN s : s[i].id = id})

\* the frame a connection received under this arrival number
FrameById(c, id) == (CHOOSE m \in Range(received[c]) : m.id = id).frame

IsHeartbeatFrame(f) ==
    /\ f.wellformed
    /\ Get(f.doc, "post_type") = "meta_event"
    /\ Get(f.doc, "meta_event_type") = "heartbeat"

IsPrivateFrame(f) ==
    /\ f.wellformed
    /\ Get(f.doc, "post_type") = "message"
    /\ Get(f.doc, "message_type") = "private"

IsGroupFrame(f) ==
    /\ f.wellformed
    /\ Get(f.doc, "post_type") = "message"
    /\ Get(f.doc, "message_type") = "group"

\* not JSON, or a message without sender.user_id, or a group message without group_id
IsMalformedFrame(f) ==
    \/ ~f.wellformed
    \/ /\ IsPrivateFrame(f) \/ IsGroupFrame(f)
       /\ ~(HasKey(f.doc, "sender") /\ HasKey(f.doc["sender"], "user_id"))
    \/ IsGroupFrame(f) /\ ~HasKey(f.doc, "group_id")

\* the outbound frame the wire format prescribes as the reply to frame f
ExpectedReply(f, message) ==
    IF IsPrivateFrame(f)
    THEN [action |-> "send_private_msg",
          params |-> [user_id |-> f.doc["sender"]["user_id"], message |-> message],
          echo |-> "send_private_msg"]
    ELSE [action |-> "send_group_msg",
          params |-> [group_id |-> f.doc["group_id"], message |-> message],
          echo |-> "send_group_msg"]

\* exactly one action was sent for the frame, and it is this one
SentExactly(c, id, frame) ==
    /\ Count(outbound[c], id) = 1
    /\ \A i \in DOMAIN outbound[c] :
        outbound[c][i].id = id => outbound[c][i].frame = frame

\* the send for the frame found the connection closed by the peer: nothing
\* was sent and the handler ended in its ConnectionClosed clause
SendFoundClosed(c, id) ==
    /\ Count(outbound[c], id) = 0
    /\ socket[c] = "closed"
    /\ exitKind[c] = "connection_closed"
    /\ received[c][Len(received[c])].id = id

\* the answer the backend gave for the frame, if it has returned
AnswersFor(c, id) == {a \in Range(backendAnswers[c]) : a.id = id}

-----------------------------------------------------------------------------
(* C1 *)

\* C1: a group message whose group setting is disabled when it is dispatched
\* causes no plugin call, no backend call and no outbound action.
C1_DisabledGroupSilent ==
    \A c \in Conns : \A l \in Range(policyLookups[c]) :
        l.disabled =>
            /\ IsGroupFrame(FrameById(c, l.id))
            /\ Count(pluginCalls[c], l.id) = 0
            /\ Count(backendCalls[c], l.id) = 0
            /\ Count(outbound[c], l.id) = 0

\* a disabled group message was dispatched and a later frame of the same
\* connection was received after it
C1_Witness ==
    \E c \in Conns : \E l \in Range(policyLookups[c]) :
        /\ l.disabled
        /\ \E m \in Range(received[c]) : m.id > l.id

-----------------------------------------------------------------------------
(* C2 *)

\* the backend was called exactly once for the frame, with the identity and
\* group flag of its conversation
CalledOnceCorrectly(c, id) ==
    LET f == FrameById(c, id)
    IN /\ Count(backendCalls[c], id) = 1
       /\ \A b \in Range(backendCalls[c]) :
            b.id = id =>
                IF IsPrivateFrame(f)
                THEN /\ b.request.identity = f.doc["sender"]["user_id"]
                     /\ b.request.is_group = FALSE
                ELSE /\ b.request.identity = f.doc["group_id"]
                     /\ b.request.is_group = TRUE

\* C2 as stated: an unclaimed message calls the backend exactly once with the
\* right identity and flag; a non-empty answer yields exactly one outbound
\* action carrying it, an empty or failed answer yields none.
C2_AsStated ==
    \A c \in Conns : \A p \in Range(pluginCalls[c]) :
        ~p.result.handled =>
            /\ CalledOnceCorrectly(c, p.id)
            /\ AnswersFor(c, p.id) = {} => Count(outbound[c], p.id) = 0
            /\ \A a \in AnswersFor(c, p.id) :
                IF Truthy(a.answer)
                THEN SentExactly(c, p.id, ExpectedReply(FrameById(c, p.id), a.answer))
                ELSE Count(outbound[c], p.id) = 0

\* C2 amended: as C2, except that a non-empty answer arriving after the peer
\* closed the connection yields no outbound action (the send raises
\* ConnectionClosed and the handler ends).
C2_UnclaimedGoesToBackend ==
    \A c \in Conns : \A p \in Range(pluginCalls[c]) :
        ~p.result.handled =>
            /\ CalledOnceCorrectly(c, p.id)
            /\ AnswersFor(c, p.id) = {} => Count(outbound[c], p.id) = 0
            /\ \A a \in AnswersFor(c, p.id) :
                IF Truthy(a.answer)
                THEN \/ SentExactly(c, p.id, ExpectedReply(FrameById(c, p.id), a.answer))
                     \/ SendFoundClosed(c, p.id)
                ELSE Count(outbound[c], p.id) = 0

\* an unclaimed private message and an unclaimed group message have both been
\* answered by the backend and replied to
C2_Witness ==
    /\ \E c \in Conns : \E a \in Range(backendAnswers[c]) :
        /\ IsPrivateFrame(FrameById(c, a.id))
        /\ Truthy(a.answer)
        /\ Count(outbound[c], a.id) = 1
    /\ \E c \in Conns : \E a \in Range(backendAnswers[c]) :
        /\ IsGroupFrame(FrameById(c, a.id))
        /\ Truthy(a.answer)
        /\ Count(outbound[c], a.id) = 1

-----------------------------------------------------------------------------
(* C3 *)

\* C3 as stated: a message a plugin claims with a non-empty reply R yields
\* exactly one outbound action, of the frame's kind, to the frame's target,
\* carrying R, and no backend call.
C3_AsStated ==
    \A c \in Conns : \A p \in Range(pluginCalls[c]) :
        (p.result.handled /\ Truthy(p.result.reply)) =>
            /\ SentExactly(c, p.id, ExpectedReply(FrameById(c, p.id), p.result.reply))
            /\ Count(backendCalls[c], p.id) = 0

\* C3 amended: as C3, except that when the peer has closed the connection
\* before the frame is dispatched no action is sent for it (the send raises
\* ConnectionClosed and the handler ends).
C3_PluginReplySent ==
    \A c \in Conns : \A p \in Range(pluginCalls[c]) :
        (p.result.handled /\ Truthy(p.result.reply)) =>
            /\ \/ SentExactly(c, p.id, ExpectedReply(FrameById(c, p.id), p.result.reply))
               \/ SendFoundClosed(c, p.id)
            /\ Count(backendCalls[c], p.id) = 0

\* a plugin reply has been sent for a private message and for a group message
C3_Witness ==
    /\ \E c \in Conns : \E p \in Range(pluginCalls[c]) :
        /\ p.result.handled /\ Truthy(p.result.reply)
        /\ IsPrivateFrame(FrameById(c, p.id))
        /\ Count(outbound[c], p.id) = 1
    /\ \E c \in Conns : \E p \in Range(pluginCalls[c]) :
        /\ p.result.handled /\ Truthy(p.result.reply)
        /\ IsGroupFrame(FrameById(c, p.id))
        /\ Count(outbound[c], p.id) = 1

-----------------------------------------------------------------------------
(* C4 *)

\* C4: a message a plugin claims without a reply yields no outbound action
\* and no backend call.
C4_ClaimedWithoutReplySuppressed ==
    \A c \in Conns : \A p \in Range(pluginCalls[c]) :
        (p.result.handled /\ p.result.reply = NoneVal) =>
            /\ Count(outbound[c], p.id) = 0
            /\ Count(backendCalls[c], p.id) = 0

\* a message was claimed without a reply while the connection was open, and
\* the loop went on to receive a later frame
C4_Witness ==
    \E c \in Conns : \E p \in Range(pluginCalls[c]) :
        /\ p.result.handled /\ p.result.reply = NoneVal
        /\ socket[c] = "open"
        /\ \E m \in Range(received[c]) : m.id > p.id

-----------------------------------------------------------------------------
(* C5 *)

\* C5: every heartbeat frame received is forwarded to the heartbeat monitor
\* (once) and causes no outbound action, plugin call, policy lookup or
\* backend call.
C5_HeartbeatOnlyRecorded ==
    \A c \in Conns : \A m \in Range(received[c]) :
        IsHeartbeatFrame(m.frame) =>
            /\ Cardinality({i \in DOMAIN heartbeats :
                              heartbeats[i] = [conn |-> c, id |-> m.id]}) = 1
            /\ Count(outbound[c], m.id) = 0
            /\ Count(pluginCalls[c], m.id) = 0
            /\ Count(policyLookups[c], m.id) = 0
            /\ Count(backendCalls[c], m.id) = 0

\* a heartbeat was received between two other frames' worth of traffic: one
\* connection has received a heartbeat and another frame
C5_Witness ==
    \E c \in Conns :
        /\ \E m \in Range(received[c]) : IsHeartbeatFrame(m.frame)
        /\ \E m \in Range(received[c]) : ~IsHeartbeatFrame(m.frame)

-----------------------------------------------------------------------------
(* C6 *)

\* C6: a frame that is not JSON, or a message frame without sender.user_id
\* (or, for a group message, without group_id), is dropped and the receive
\* loop continues: the handler does not end because of it.
C6_MalformedFrameDropped ==
    \A c \in Conns :
        (\E m \in Range(received[c]) : IsMalformedFrame(m.frame)) =>
            exitKind[c] # "error"

-----------------------------------------------------------------------------
(* C7 *)

\* C7: when the backend answer for a frame is a failure or empty, the step
\* that takes the answer sends nothing and leaves the connection ACTIVE with
\* the receive loop ready for the next frame.
C7_NoAnswerNoReplyLoopContinues ==
    [][\A c \in Conns :
         (/\ Len(backendAnswers'[c]) = Len(backendAnswers[c]) + 1
          /\ ~Truthy(backendAnswers'[c][Len(backendAnswers'[c])].answer))
         => /\ outbound'[c] = outbound[c]
            /\ st'[c] = "ACTIVE"
            /\ pc'[c] = "recv"
            /\ exitKind'[c] = "running"]_vars

\* the backend failed on one frame and returned an empty answer on the next
\* frame of the same connection, which was still received and dispatched
C7_Witness ==
    \E c \in Conns : \E a, b \in Range(backendAnswers[c]) :
        /\ a.answer = NoneVal
        /\ b.answer = ""
        /\ b.id > a.id
        /\ outbound[c] = <<>>
        /\ st[c] = "ACTIVE"

-----------------------------------------------------------------------------
(* C8 *)

\* C8: on each connection the replies are sent in the order in which their
\* triggering frames arrived.
C8_RepliesInArrivalOrder ==
    \A c \in Conns : \A i, j \in DOMAIN outbound[c] :
        i < j => outbound[c][i].id < outbound[c][j].id

\* two replies went out on one connection, the first after a backend round
\* trip during which the second frame was already waiting
C8_Witness ==
    \E c \in Conns :
        /\ Len(outbound[c]) >= 2
        /\ \E a \in Range(backendAnswers[c]) : a.id = outbound[c][1].id

-----------------------------------------------------------------------------
(* C9 *)

\* nothing has been done for the connection
Untouched(c) ==
    /\ pluginLoads[c] = 0
    /\ received[c] = <<>>
    /\ outbound[c] = <<>>
    /\ backendCalls[c] = <<>>
    /\ backendAnswers[c] = <<>>
    /\ pluginCalls[c] = <<>>
    /\ policyLookups[c] = <<>>
    /\ \A i \in DOMAIN heartbeats : heartbeats[i].conn # c

\* the histories of the connection, and its heartbeat records
Activity(c) ==
    <<received[c], outbound[c], backendCalls[c], backendAnswers[c], pluginCalls[c],
      policyLookups[c], {i \in DOMAIN heartbeats : heartbeats[i].conn = c}>>

\* C9: a connection with another path than the listen path goes from
\* AWAITING_HANDSHAKE straight to CLOSED and nothing is ever done for it;
\* frames and heartbeats are processed only on connections in ACTIVE.
C9_MismatchClosedUntouched ==
    [][\A c \in Conns :
         /\ (path'[c] # NoneVal /\ path'[c] # ListenPath) =>
                /\ st[c] \in {"AWAITING_HANDSHAKE", "CLOSED"}
                /\ st'[c] = "CLOSED"
                /\ Untouched(c)'
         /\ Activity(c)' # Activity(c) => st[c] = "ACTIVE"]_vars

\* a connection was rejected for its path while frames were waiting on it
C9_Witness ==
    \E c \in Conns :
        /\ path[c] = "/other"
        /\ st[c] = "CLOSED"
        /\ inbox[c] # <<>>

-----------------------------------------------------------------------------
(* C10 *)

\* C10: every outbound frame has echo = action, and is send_private_msg to
\* the sender of the triggering frame exactly when that frame is a private
\* message, send_group_msg to its group exactly when it is a group message.
C10_OutboundWellFormed ==
    \A c \in Conns : \A o \in Range(outbound[c]) :
        LET f == FrameById(c, o.id)
        IN /\ o.frame.echo = o.frame.action
           /\ o.frame.action \in {"send_private_msg", "send_group_msg"}
           /\ IsPrivateFrame(f) \/ IsGroupFrame(f)
           /\ IsPrivateFrame(f) <=>
                /\ o.frame.action = "send_private_msg"
                /\ DOMAIN o.frame.params = {"user_id", "message"}
                /\ o.frame.params["user_id"] = f.doc["sender"]["user_id"]
           /\ IsGroupFrame(f) <=>
                /\ o.frame.action = "send_group_msg"
                /\ DOMAIN o.frame.params = {"group_id", "message"}
                /\ o.frame.params["group_id"] = f.doc["group_id"]

\* replies have gone out on the plugin path and on the backend path, to a
\* private and to a group conversation
C10_Witness ==
    /\ \E c \in Conns : \E o \in Range(outbound[c]) :
        /\ o.frame.action = "send_private_msg"
        /\ \E p \in Range(pluginCalls[c]) : p.id = o.id /\ p.result.handled
    /\ \E c \in Conns : \E o \in Range(outbound[c]) :
        /\ o.frame.action = "send_group_msg"
        /\ \E a \in Range(backendAnswers[c]) : a.id = o.id

-----------------------------------------------------------------------------
(* C11 *)

\* C11: no outbound frame carries an empty message (a reply is sent only
\* when it is non-empty), also when a plugin claims a message with reply "".
C11_NoEmptyOutbound ==
    \A c \in Conns : \A o \in Range(outbound[c]) :
        Truthy(o.frame.params["message"])

-----------------------------------------------------------------------------
(* C12 *)

\* the frames whose backend call has not returned
InFlight(c) ==
    {b.id : b \in Range(backendCalls[c])} \ {a.id : a \in Range(backendAnswers[c])}

\* every history of the connection but received
Histories(c) ==
    <<outbound[c], backendCalls[c], backendAnswers[c], pluginCalls[c], policyLookups[c]>>

\* C12: on a connection at most one dispatch is in progress; while it awaits
\* the backend it is the dispatch of the last frame received, no later frame
\* has been taken, and frames are taken in arrival order.
C12_OneDispatchPerConnection ==
    \A c \in Conns :
        /\ Cardinality(InFlight(c)) <= 1
        /\ \A id \in InFlight(c) :
            /\ st[c] = "ACTIVE" => (pc[c] = "await_backend" /\ cur[c].id = id)
            /\ received[c][Len(received[c])].id = id
            /\ \A i \in DOMAIN Histories(c) : \A k \in DOMAIN Histories(c)[i] :
                    Histories(c)[i][k].id <= id
        /\ \A i \in DOMAIN received[c] : received[c][i].id = i
        /\ \A i \in DOMAIN inbox[c] : inbox[c][i].id = Len(received[c]) + i

\* a dispatch is suspended on the backend while a later frame of the same
\* connection waits behind it
C12_Witness ==
    \E c \in Conns :
        /\ pc[c] = "await_backend"
        /\ InFlight(c) = {cur[c].id}
        /\ inbox[c] # <<>>

-----------------------------------------------------------------------------
(* C13 *)

\* C13: a backend call that never returns stalls only its own connection:
\* a frame waiting on another connection, whose loop is not itself in a
\* dispatch, is taken by that loop however long the first call stays out.
C13_HungBackendStallsOnlyItsConnection ==
    \A c, d \in Conns : \A n \in 1..MaxFrames :
        (/\ c # d
         /\ pc[c] = "await_backend"
         /\ st[d] = "ACTIVE" /\ pc[d] = "recv"
         /\ inbox[d] # <<>> /\ Head(inbox[d]).id = n)
        ~> (Len(received[d]) >= n)

\* while the backend call of one connection is still out, another connection
\* has had a message answered by the backend and has sent the reply
C13_Witness ==
    \E c, d \in Conns :
        /\ c # d
        /\ pc[c] = "await_backend"
        /\ InFlight(c) # {}
        /\ \E a \in Range(backendAnswers[d]) : Count(outbound[d], a.id) = 1

-----------------------------------------------------------------------------
(* C14 *)

\* C14: the heartbeat monitor a connection uses holds only that connection's
\* heartbeats, and holds none once the connection is closed.
C14_HeartbeatsPerSession ==
    \A c \in Conns :
        /\ \A h \in Range(heartbeat_handler(c)) : h.conn = c
        /\ st[c] = "CLOSED" => heartbeat_handler(c) = <<>>

-----------------------------------------------------------------------------
(* C15 *)

\* C15: once a connection is closed while a backend call for one of its
\* frames is in flight, no further outbound action is sent on it and its
\* handler never ends otherwise than in the ConnectionClosed clause, where
\* the closure is logged.
C15_ClosedInFlightEndsLogged ==
    \A c \in Conns : \A n \in 0..MaxFrames :
        []((/\ pc[c] = "await_backend"
            /\ socket[c] = "closed"
            /\ Len(outbound[c]) = n)
           => [](/\ Len(outbound[c]) = n
                 /\ exitKind[c] \in {"running", "connection_closed"}))

-----------------------------------------------------------------------------
(* C16 *)

\* C16: every group message dispatched is gated by a policy lookup of its
\* own, made for its group at its dispatch: when that lookup says disabled
\* the frame is dropped, and otherwise (enabled, or no 'enabled' record) it
\* goes on to the plugins, whatever earlier lookups of the connection said.
C16_PolicyReadPerDispatch ==
    \A c \in Conns : \A m \in Range(received[c]) :
        (IsGroupFrame(m.frame) /\ ~IsMalformedFrame(m.frame)) =>
            /\ Count(policyLookups[c], m.id) = 1
            /\ \A l \in Range(policyLookups[c]) :
                l.id = m.id =>
                    /\ l.group_id = m.frame.doc["group_id"]
                    /\ IF l.disabled
                       THEN /\ Count(pluginCalls[c], m.id) = 0
                            /\ Count(backendCalls[c], m.id) = 0
                            /\ Count(outbound[c], m.id) = 0
                       ELSE Count(pluginCalls[c], m.id) = 1

\* the setting of a group changed between two frames of one connection: one
\* of them was dropped and the other went on to the plugins
C16_Witness ==
    \E c \in Conns : \E k, l \in Range(policyLookups[c]) :
        /\ k.id < l.id /\ k.group_id = l.group_id
        /\ k.disabled # l.disabled
        /\ Count(pluginCalls[c], k.id) + Count(pluginCalls[c], l.id) = 1

-----------------------------------------------------------------------------
(* C17 *)

\* well-formed, not a heartbeat, not a private or group message
IsUnknownFrame(f) ==
    /\ f.wellformed
    /\ ~IsHeartbeatFrame(f)
    /\ ~IsPrivateFrame(f)
    /\ ~IsGroupFrame(f)

\* C17: a well-formed frame that is neither a heartbeat nor a private or
\* group message leaves no heartbeat record, policy lookup, plugin call,
\* backend call, backend answer or outbound action, and after it the
\* connection is ACTIVE with the receive loop ready for the next frame, until
\* the loop finds the connection closed.
C17_UnknownFrameDropped ==
    \A c \in Conns : \A m \in Range(received[c]) :
        IsUnknownFrame(m.frame) =>
            /\ \A i \in DOMAIN Histories(c) : Count(Histories(c)[i], m.id) = 0
            /\ \A h \in Range(heartbeats) : h # [conn |-> c, id |-> m.id]
            /\ m.id = Len(received[c]) =>
                \/ st[c] = "ACTIVE" /\ pc[c] = "recv" /\ exitKind[c] = "running"
                \/ /\ st[c] = "CLOSED"
                   /\ socket[c] = "closed"
                   /\ inbox[c] = <<>>
                   /\ exitKind[c] \in {"loop_end", "connection_closed"}

\* a message of another message_type was received, and the same connection
\* then received a later message and replied to it
C17_Witness ==
    \E c \in Conns : \E m, n \in Range(received[c]) :
        /\ IsUnknownFrame(m.frame)
        /\ Get(m.frame.doc, "post_type") = "message"
        /\ n.id > m.id
        /\ Count(outbound[c], n.id) = 1

-----------------------------------------------------------------------------
(* C19 *)

\* the private and group message frames a connection has received
MessageFramesReceived(c) ==
    {m \in Range(received[c]) : IsPrivateFrame(m.frame) \/ IsGroupFrame(m.frame)}

\* C19: on every connection the outbound actions sent and the backend calls
\* made are each at most as many as the private/group message frames
\* received, no frame has more than one of either, and every outbound action
\* and backend call belongs to exactly one received message frame of that
\* connection, whose conversation it addresses.
C19_AtMostOnePerMessageFrame ==
    \A c \in Conns :
        /\ Len(outbound[c]) <= Cardinality(MessageFramesReceived(c))
        /\ Len(backendCalls[c]) <= Cardinality(MessageFramesReceived(c))
        /\ \A o \in Range(outbound[c]) :
            /\ Count(outbound[c], o.id) = 1
            /\ Cardinality({m \in MessageFramesReceived(c) : m.id = o.id}) = 1
            /\ o.frame = ExpectedReply(FrameById(c, o.id), o.frame.params["message"])
        /\ \A b \in Range(backendCalls[c]) :
            /\ Count(backendCalls[c], b.id) = 1
            /\ Cardinality({m \in MessageFramesReceived(c) : m.id = b.id}) = 1

\* a connection has replied to each of two message frames, to one of them
\* from a plugin and to the other after a backend call
C19_Witness ==
    \E c \in Conns :
        /\ Cardinality(MessageFramesReceived(c)) = 2
        /\ Len(outbound[c]) = 2
        /\ Len(backendCalls[c]) = 1

-----------------------------------------------------------------------------
(* C18 *)

\* once a session is CLOSED it stays CLOSED, no frame is received for it and
\* nothing is added to any of its histories
ClosedIsFinal ==
    [][\A c \in Conns :
         st[c] = "CLOSED" => (st'[c] = "CLOSED" /\ Activity(c)' = Activity(c))]_vars

====
